---- MODULE Spec2Model ----
(***************************************************************************)
(* WalletTracker of src/src/index.ts: the wallet registry, the activity    *)
(* store, the chain adapters, the update cycle with its suspension points  *)
(* (every await), the polling timer and getTransactionHistory.             *)
(*                                                                         *)
(* An update() invocation is a process: it runs synchronously up to its    *)
(* next await, and between two awaits anything else the event loop holds   *)
(* may run (a registry call, a timer tick, another update() invocation).   *)
(* Upstream responses and the behaviour of the user's callbacks (return or *)
(* throw) are inputs.  Date.now() and console output are left out.         *)
(***************************************************************************)
EXTENDS Integers, Sequences, FiniteSets, TLC

\* ---------------------------------------------------------------- bounds
\* update() invocations in flight at the same time (Spec, SpecDiff, SpecFetch)
MaxCycles == 1
\* update() invocations in flight at the same time (SpecPoller, SpecLifetime)
MaxOverlap == 2
\* interval timers armed at the same time (SpecPoller)
MaxTimers == 2
\* entries of one explorer page (Spec, SpecDiff, SpecPoller)
MaxPage == 1
\* entries of one Solscan page (SpecDiff)
MaxSolanaPage == 2
\* entries of one explorer page where fetchTransactions is checked on its own
MaxMergePage == 2
\* entries of one explorer page (SpecFetch)
MaxFetchPage == 2
\* transactions of the stored snapshot where getTransactionHistory is
\* checked on its own (more than the default limit)
MaxStored == 22
\* largest explicit limit handed to getTransactionHistory
MaxLimit == 23

\* ------------------------------------------------------------ data model
\* EXPLORER_APIS: the chains with a block explorer
EXPLORER_APIS == {"ethereum", "bsc", "polygon", "arbitrum", "base"}

\* `${chain}:${address}`
KeyOf(chain, address) == chain \o ":" \o address

\* raw upstream transaction records: hash / txHash and timeStamp / blockTime
\* (in seconds)
RawTx(hashes, times) == [hash : hashes, time : times]

RECURSIVE SeqsUpTo(_, _)
\* the sequences over S of length at most n
SeqsUpTo(S, n) ==
  IF n = 0 THEN {<<>>}
  ELSE LET shorter == SeqsUpTo(S, n - 1)
       IN shorter \cup {Append(s, x) : s \in {t \in shorter : Len(t) = n - 1}, x \in S}

\* the replies of an explorer endpoint whose result is one of results: the
\* {status, result} envelope; "failed" is a network or parse failure
ExplorerReplies(results) ==
  {[kind |-> "failed", status |-> "0", result |-> <<>>],
   [kind |-> "json", status |-> "0", result |-> <<>>]}
  \cup {[kind |-> "json", status |-> "1", result |-> r] : r \in results}

\* the replies of Solscan's account/transactions: an array, something else,
\* or a failure
SolscanReplies(results) ==
  {[kind |-> "failed", isArray |-> FALSE, result |-> <<>>],
   [kind |-> "json", isArray |-> FALSE, result |-> <<>>]}
  \cup {[kind |-> "json", isArray |-> TRUE, result |-> r] : r \in results}

\* ------------------------------------------------------------- adapters
\* data.result.map(...) of fetchEvmTransactions: a native transaction
MapNative(r) ==
  [i \in 1..Len(r) |-> [hash |-> r[i].hash, timestamp |-> r[i].time * 1000, token |-> FALSE]]

\* data.result.map(...) of fetchEvmTokenTransfers: carries token metadata
MapToken(r) ==
  [i \in 1..Len(r) |-> [hash |-> r[i].hash, timestamp |-> r[i].time * 1000, token |-> TRUE]]

fetchEvmTransactions(wallet, reply) ==
  IF wallet.chain \notin EXPLORER_APIS THEN <<>>
  ELSE IF reply.kind = "failed" THEN <<>>
  ELSE IF reply.status # "1" THEN <<>>
  ELSE MapNative(reply.result)

fetchEvmTokenTransfers(wallet, reply) ==
  IF wallet.chain \notin EXPLORER_APIS THEN <<>>
  ELSE IF reply.kind = "failed" THEN <<>>
  ELSE IF reply.status # "1" THEN <<>>
  ELSE MapToken(reply.result)

fetchSolanaTransactions(wallet, reply) ==
  IF reply.kind = "failed" THEN <<>>
  ELSE IF ~reply.isArray THEN <<>>
  ELSE MapNative(reply.result)

\* TransactionRequests without the early return for a chain without explorer
TransactionRequestsUnguarded(wallet) == IF wallet.chain = "solana" THEN 1 ELSE 2

\* fetch calls a transaction fetch issues before it suspends
TransactionRequests(wallet) ==
  IF wallet.chain = "solana" THEN 1
  ELSE IF wallet.chain \in EXPLORER_APIS THEN 2 ELSE 0

RECURSIVE InsertDesc(_, _)
\* tx put into the list s (sorted by descending timestamp) behind every
\* entry whose timestamp is not smaller: the sort is stable
InsertDesc(s, tx) ==
  IF s = <<>> THEN <<tx>>
  ELSE IF Head(s).timestamp >= tx.timestamp THEN <<Head(s)>> \o InsertDesc(Tail(s), tx)
  ELSE <<tx>> \o s

RECURSIVE SortDesc(_)
\* allTxs.sort((a, b) => b.timestamp - a.timestamp), a stable sort
SortDesc(s) ==
  IF s = <<>> THEN <<>>
  ELSE InsertDesc(SortDesc(SubSeq(s, 1, Len(s) - 1)), s[Len(s)])

RECURSIVE DedupFrom(_, _)
\* allTxs.filter(...) with the seen set
DedupFrom(s, seen) ==
  IF s = <<>> THEN <<>>
  ELSE IF Head(s).hash \in seen THEN DedupFrom(Tail(s), seen)
  ELSE <<Head(s)>> \o DedupFrom(Tail(s), seen \cup {Head(s).hash})

\* Dedup without the seen set: every entry is kept
DedupKeepsAll(s) == s

Dedup(s) == DedupFrom(s, {})

\* merge of the two EVM lists: concatenate, sort, deduplicate by hash
MergeEvm(nativeTxs, tokenTxs) == Dedup(SortDesc(nativeTxs \o tokenTxs))

\* fetchTransactions: replies is the record of the upstream replies
fetchTransactions(wallet, replies) ==
  IF wallet.chain = "solana" THEN fetchSolanaTransactions(wallet, replies.solscan)
  ELSE MergeEvm(fetchEvmTransactions(wallet, replies.txlist),
                fetchEvmTokenTransfers(wallet, replies.tokentx))

\* the replies to the two balance requests of an EVM wallet; "failed" when
\* one of the two requests or its parse fails
EvmBalanceReplies(natives, rawTokens) ==
  {[kind |-> "failed", status |-> "0", result |-> "0", tokenStatus |-> "0", tokens |-> <<>>]}
  \cup [kind : {"json"}, status : {"0", "1"}, result : natives,
        tokenStatus : {"0", "1"}, tokens : rawTokens]

\* the replies to getBalance and to account/tokens of a solana wallet
SolanaBalanceReplies(lamports, rawTokens) ==
  {[kind |-> "failed", lamports |-> 0, tokens |-> <<>>]}
  \cup [kind : {"json"}, lamports : lamports, tokens : rawTokens]

\* the tokens kept: t.balance && t.balance !== '0' (tokenAmount.uiAmount > 0)
NonZero(tokens) == SelectSeq(tokens, LAMBDA b : b # "0")

ZeroBalance == [native |-> "0", tokens |-> <<>>]

fetchEvmBalance(wallet, reply) ==
  IF wallet.chain \notin EXPLORER_APIS THEN ZeroBalance
  ELSE IF reply.kind = "failed" THEN ZeroBalance
  ELSE [native |-> IF reply.status = "1" THEN reply.result ELSE "0",
        tokens |-> IF reply.tokenStatus = "1" THEN NonZero(reply.tokens) ELSE <<>>]

fetchSolanaBalance(wallet, reply) ==
  IF reply.kind = "failed" THEN ZeroBalance
  ELSE [native |-> ToString(reply.lamports), tokens |-> NonZero(reply.tokens)]

\* fetchBalance: replies is the record of the upstream replies
fetchBalance(wallet, replies) ==
  IF wallet.chain = "solana" THEN fetchSolanaBalance(wallet, replies.solana)
  ELSE fetchEvmBalance(wallet, replies.evm)

\* the adapter calls of a transaction fetch that end in their catch block
TransactionFailures(wallet, replies) ==
  IF wallet.chain = "solana"
  THEN {n \in {"solscan"} : replies[n].kind = "failed"}
  ELSE IF wallet.chain \in EXPLORER_APIS
       THEN {n \in {"txlist", "tokentx"} : replies[n].kind = "failed"}
       ELSE {}

\* the adapter call of a balance fetch, when it ends in its catch block
BalanceFailures(wallet, replies) ==
  IF wallet.chain = "solana"
  THEN {n \in {"balance"} : replies.solana.kind = "failed"}
  ELSE IF wallet.chain \in EXPLORER_APIS
       THEN {n \in {"balance"} : replies.evm.kind = "failed"}
       ELSE {}

\* fetch calls a balance fetch issues before it suspends
BalanceRequests(wallet) ==
  IF wallet.chain = "solana" THEN 1
  ELSE IF wallet.chain \in EXPLORER_APIS THEN 2 ELSE 0

\* ------------------------------------------------------------------ state
VARIABLES
  wallets,     \* this.wallets: the configs in the Map's insertion order
  activities,  \* this.activities: key -> WalletActivity, for the keys present
  options,     \* this.options: which callbacks are configured
  pollTimer,   \* this.pollTimer: a timer handle, 0 for undefined
  timers,      \* the interval timers armed in the runtime
  cycles,      \* the update() invocations: where each is suspended
  lastOp,      \* the operation that made the last step, its cycle and wallet
  calls,       \* the callback invocations the last step made, in order
  outcome,     \* how the last step's try block ended: "done", "caught" (an
               \* exception reached the catch block) or "rejected" (an
               \* exception left update()); "none" when no wallet was processed
  requests,    \* fetch calls the last step issued
  removed,     \* the (chain, address) removed and not added again since
  history,     \* what the cycles did, kept where a specification asks for it:
               \* the (key, hash) handed to onTransaction since the key was
               \* last removed, the adapter calls that failed for the wallet
               \* each cycle is fetching, and for the last wallet processed
               \* the adapter calls that had failed and whether it had no
               \* snapshot
  probe        \* arguments and result of the last call checked on its own

vars == <<wallets, activities, options, pollTimer, timers, cycles, lastOp,
          calls, outcome, requests, removed, history, probe>>

CycleIds == DOMAIN cycles

NoWallet == [chain |-> "", address |-> "", label |-> ""]

IdleCycle == [pc |-> "idle", pos |-> 0, wallet |-> NoWallet, transactions |-> <<>>]

WalletKey(w) == KeyOf(w.chain, w.address)

\* index of the key in this.wallets, 0 when it is not registered
IndexOf(key) ==
  IF \E i \in 1..Len(wallets) : WalletKey(wallets[i]) = key
  THEN CHOOSE i \in 1..Len(wallets) : WalletKey(wallets[i]) = key
  ELSE 0

\* MapSet as a list would do it: the config is appended even when its key
\* is registered
MapSetAppends(config) == Append(wallets, config)

\* this.wallets.set(key, config): an existing key keeps its place
MapSet(config) ==
  LET i == IndexOf(WalletKey(config))
  IN IF i = 0 THEN Append(wallets, config) ELSE [wallets EXCEPT ![i] = config]

\* this.wallets.delete(key)
MapDelete(key) ==
  LET i == IndexOf(key)
  IN IF i = 0 THEN wallets
     ELSE SubSeq(wallets, 1, i - 1) \o SubSeq(wallets, i + 1, Len(wallets))

\* the live iterators of this.wallets.values() after delete(key): an entry
\* deleted at or before an iterator's place moves the place back by one
IteratorsAfterDelete(key) ==
  LET i == IndexOf(key)
  IN [c \in CycleIds |->
        IF i # 0 /\ cycles[c].pc # "idle" /\ i <= cycles[c].pos
        THEN [cycles[c] EXCEPT !.pos = @ - 1]
        ELSE cycles[c]]

\* this.activities.delete(key)
ActivitiesDelete(key) == [k \in (DOMAIN activities) \ {key} |-> activities[k]]

\* getWallets()
getWallets == wallets

\* getActivity(chain, address): a sequence holding the activity, empty for undefined
getActivity(chain, address) ==
  LET key == KeyOf(chain, address)
  IN IF key \in DOMAIN activities THEN <<activities[key]>> ELSE <<>>

NoProbe == [op |-> "none"]

\* the history of a tracker whose history is not kept
NoHistory == [kept |-> FALSE]

\* the history of a new tracker with n update() invocations
NewHistory(n) ==
  [kept |-> TRUE, delivered |-> {}, pending |-> [c \in 1..n |-> {}],
   failed |-> {}, first |-> FALSE]

\* the history after a step: h where it is kept
Kept(h) == IF history.kept THEN h ELSE history

\* the tracker after new WalletTracker(options), with room for n update()
\* invocations; kept says whether the history is kept
InitTracker(optionSet, n, kept) ==
  /\ wallets = <<>>
  /\ activities = <<>>
  /\ options \in optionSet
  /\ pollTimer = 0
  /\ timers = {}
  /\ cycles = [c \in 1..n |-> IdleCycle]
  /\ lastOp = [op |-> "new", cycle |-> 0, wallet |-> NoWallet]
  /\ calls = <<>>
  /\ outcome = "none"
  /\ requests = 0
  /\ removed = {}
  /\ history = (IF kept THEN NewHistory(n) ELSE NoHistory)
  /\ probe = NoProbe

\* ------------------------------------------------------------- registry
addWallet(config) ==
  /\ wallets' = MapSet(config)
  /\ removed' = removed \ {[chain |-> config.chain, address |-> config.address]}
  /\ lastOp' = [op |-> "addWallet", cycle |-> 0, wallet |-> config]
  /\ calls' = <<>>
  /\ outcome' = "none"
  /\ requests' = 0
  /\ UNCHANGED <<activities, options, pollTimer, timers, cycles, history, probe>>

removeWallet(chain, address) ==
  /\ wallets' = MapDelete(KeyOf(chain, address))
  /\ cycles' = IteratorsAfterDelete(KeyOf(chain, address))
  /\ activities' = ActivitiesDelete(KeyOf(chain, address))
  /\ removed' = removed \cup {[chain |-> chain, address |-> address]}
  /\ history' = Kept([history EXCEPT
                        !.delivered = {d \in @ : d.key # KeyOf(chain, address)}])
  /\ lastOp' = [op |-> "removeWallet", cycle |-> 0, wallet |-> NoWallet]
  /\ calls' = <<>>
  /\ outcome' = "none"
  /\ requests' = 0
  /\ UNCHANGED <<options, pollTimer, timers, probe>>

\* --------------------------------------------------------- update cycle
\* the for-of loop takes the next entry of this.wallets.values() and runs
\* up to the await of its transaction fetch; the loop ends behind the last
NextWallet(cyc) ==
  IF cyc.pos < Len(wallets)
  THEN [pc |-> "fetchTransactions", pos |-> cyc.pos + 1,
        wallet |-> wallets[cyc.pos + 1], transactions |-> <<>>]
  ELSE IdleCycle

\* IssuedBy with the two fetches of a wallet started together
\* (Promise.all) instead of one after the other
IssuedTogether(cyc) ==
  IF cyc.pc = "fetchTransactions"
  THEN TransactionRequests(cyc.wallet) + BalanceRequests(cyc.wallet)
  ELSE 0

\* fetch calls issued when a cycle comes to be in the state cyc
IssuedBy(cyc) ==
  IF cyc.pc = "fetchTransactions" THEN TransactionRequests(cyc.wallet)
  ELSE IF cyc.pc = "fetchBalance" THEN BalanceRequests(cyc.wallet)
  ELSE 0

\* an update() invocation not in flight: the lowest free one
FreeCycle(c) ==
  /\ cycles[c].pc = "idle"
  /\ \A d \in CycleIds : d < c => cycles[d].pc # "idle"

\* update() up to its first await
BeginUpdate(c) ==
  /\ cycles' = [cycles EXCEPT ![c] = NextWallet(IdleCycle)]
  /\ requests' = IssuedBy(NextWallet(IdleCycle))
  /\ calls' = <<>>
  /\ outcome' = "none"

\* update() called by the user
update(c) ==
  /\ FreeCycle(c)
  /\ BeginUpdate(c)
  /\ lastOp' = [op |-> "update", cycle |-> c, wallet |-> NoWallet]
  /\ UNCHANGED <<wallets, activities, options, pollTimer, timers, removed, history, probe>>

\* await this.fetchTransactions(wallet) resumes; fetchBalance begins
TransactionsFetched(c, replies) ==
  /\ cycles[c].pc = "fetchTransactions"
  /\ cycles' = [cycles EXCEPT ![c] =
       [@ EXCEPT !.pc = "fetchBalance",
                 !.transactions = fetchTransactions(cycles[c].wallet, replies)]]
  /\ requests' = BalanceRequests(cycles[c].wallet)
  /\ lastOp' = [op |-> "fetchTransactions", cycle |-> c, wallet |-> cycles[c].wallet]
  /\ calls' = <<>>
  /\ outcome' = "none"
  /\ history' = Kept([history EXCEPT
                        !.pending[c] = TransactionFailures(cycles[c].wallet, replies)])
  /\ UNCHANGED <<wallets, activities, options, pollTimer, timers, removed, probe>>

\* the hashes of a transaction list
HashesOf(txs) == {txs[i].hash : i \in 1..Len(txs)}

\* NewTxs when the snapshot is read after the write instead of before it:
\* the diff is against the list just written, and nothing is new
NewTxsAfterWrite(prev, transactions) ==
  SelectSeq(transactions, LAMBDA tx : tx.hash \notin HashesOf(transactions))

\* transactions.filter(tx => !prev.transactions.find(p => p.hash === tx.hash))
NewTxs(prev, transactions) ==
  SelectSeq(transactions, LAMBDA tx : tx.hash \notin HashesOf(prev.transactions))

\* prev.balance.native !== balance.native
BalanceChanged(prev, balance) == prev.balance.native # balance.native

\* Planned with a missing snapshot taken for an empty one: every fetched
\* transaction is new, and a native balance other than '0' is a change
PlannedFromNothing(prev, wallet, transactions, balance) ==
  LET before == IF prev = <<>> THEN [transactions |-> <<>>, balance |-> ZeroBalance]
                ELSE prev[1]
      newTxs == IF options.onTransaction THEN NewTxs(before, transactions) ELSE <<>>
      changed == options.onBalanceChange /\ BalanceChanged(before, balance)
  IN [i \in 1..Len(newTxs) |->
        [cb |-> "onTransaction", tx |-> <<newTxs[i]>>, balance |-> balance, wallet |-> wallet]]
     \o (IF changed
         THEN <<[cb |-> "onBalanceChange", tx |-> <<>>, balance |-> balance, wallet |-> wallet]>>
         ELSE <<>>)

\* the callback invocations the diff asks for, in the order of the code;
\* prev is this.activities.get(key): empty for undefined
Planned(prev, wallet, transactions, balance) ==
  LET newTxs == IF prev # <<>> /\ options.onTransaction
                THEN NewTxs(prev[1], transactions) ELSE <<>>
      changed == /\ prev # <<>>
                 /\ options.onBalanceChange
                 /\ BalanceChanged(prev[1], balance)
  IN [i \in 1..Len(newTxs) |->
        [cb |-> "onTransaction", tx |-> <<newTxs[i]>>, balance |-> balance, wallet |-> wallet]]
     \o (IF changed
         THEN <<[cb |-> "onBalanceChange", tx |-> <<>>, balance |-> balance, wallet |-> wallet]>>
         ELSE <<>>)

\* the invocations made when the throwAt-th one throws (0: none throws)
Dispatched(planned, throwAt) ==
  IF throwAt = 0 THEN planned ELSE SubSeq(planned, 1, throwAt)

\* Caught for adapters that let their failure through to update()'s catch
\* block: onError is invoked for a wallet with a failed adapter call too
CaughtWithFailures(wallet, balance, throwAt) ==
  IF /\ options.onError
     /\ \/ throwAt # 0
        \/ /\ history.kept
           /\ \E c \in CycleIds : cycles[c].wallet = wallet /\ history.pending[c] # {}
  THEN <<[cb |-> "onError", tx |-> <<>>, balance |-> balance, wallet |-> wallet]>>
  ELSE <<>>

\* the catch block: this.options.onError?.(error, wallet)
Caught(wallet, balance, throwAt) ==
  IF throwAt # 0 /\ options.onError
  THEN <<[cb |-> "onError", tx |-> <<>>, balance |-> balance, wallet |-> wallet]>>
  ELSE <<>>

\* the (key, hash) the onTransaction invocations among cs hand over
Deliveries(wallet, cs) ==
  {[key |-> WalletKey(wallet), hash |-> cs[i].tx[1].hash] :
     i \in {j \in 1..Len(cs) : cs[j].cb = "onTransaction"}}

\* StoreActivity writing the config the registry holds now instead of the
\* one the loop captured, and nothing for a wallet no longer registered
StoreRegistered(wallet, transactions, balance) ==
  IF IndexOf(WalletKey(wallet)) = 0 THEN activities
  ELSE (WalletKey(wallet) :> [wallet |-> wallets[IndexOf(WalletKey(wallet))],
                              transactions |-> transactions, balance |-> balance])
       @@ activities

\* this.activities.set(key, {wallet, transactions, balance, lastUpdated})
StoreActivity(wallet, transactions, balance) ==
  (WalletKey(wallet) :> [wallet |-> wallet, transactions |-> transactions, balance |-> balance])
  @@ activities

\* how the try block ended
Outcome(throwAt, errorThrows) ==
  IF errorThrows THEN "rejected" ELSE IF throwAt # 0 THEN "caught" ELSE "done"

\* the loop after the wallet of cyc: on to the next wallet, or out of
\* update() when the catch block itself threw
AfterWallet(cyc, errorThrows) == IF errorThrows THEN IdleCycle ELSE NextWallet(cyc)

\* await this.fetchBalance(wallet) resumes: the snapshot is read and
\* written, the callbacks are dispatched, a throw is caught and reported,
\* and the loop goes on to the next wallet.  An exception thrown by onError
\* leaves the catch block and update().
BalanceFetched(c, replies, throwAt, errorThrows) ==
  /\ cycles[c].pc = "fetchBalance"
  /\ LET wallet == cycles[c].wallet
         transactions == cycles[c].transactions
         balance == fetchBalance(wallet, replies)
         prev == getActivity(wallet.chain, wallet.address)
         planned == Planned(prev, wallet, transactions, balance)
     IN /\ throwAt \in 0..Len(planned)
        /\ errorThrows => (throwAt # 0 /\ options.onError)
        /\ activities' = StoreActivity(wallet, transactions, balance)
        /\ calls' = Dispatched(planned, throwAt) \o Caught(wallet, balance, throwAt)
        /\ outcome' = Outcome(throwAt, errorThrows)
        /\ cycles' = [cycles EXCEPT ![c] = AfterWallet(@, errorThrows)]
        /\ requests' = IssuedBy(AfterWallet(cycles[c], errorThrows))
        /\ history' = Kept(
             [history EXCEPT
                !.delivered = @ \cup Deliveries(wallet, Dispatched(planned, throwAt)),
                !.failed = history.pending[c] \cup BalanceFailures(wallet, replies),
                !.first = (prev = <<>>),
                !.pending[c] = {}])
  /\ lastOp' = [op |-> "process", cycle |-> c, wallet |-> cycles[c].wallet]
  /\ UNCHANGED <<wallets, options, pollTimer, timers, removed, probe>>

\* ------------------------------------------------ getTransactionHistory
\* the default of the limit parameter
DefaultLimit == 20

\* Array.prototype.slice(start, end): a negative index counts from the end
SliceIndex(i, len) == IF i < 0 THEN (IF len + i < 0 THEN 0 ELSE len + i)
                      ELSE (IF i > len THEN len ELSE i)

Slice(s, start, end) ==
  SubSeq(s, SliceIndex(start, Len(s)) + 1, SliceIndex(end, Len(s)))

\* the limit parameter without its default: slice(0, undefined) is the whole list
LimitOrAll(limitArg) == IF limitArg = <<>> THEN MaxStored + 1 ELSE limitArg[1]

\* limit: number = 20; limitArg is empty when the argument is omitted
LimitOf(limitArg) == IF limitArg = <<>> THEN DefaultLimit ELSE limitArg[1]

\* the list getTransactionHistory(chain, address, limit) returns
historyOf(chain, address, limitArg) ==
  IF getActivity(chain, address) = <<>> THEN <<>>
  ELSE Slice(getActivity(chain, address)[1].transactions, 0, LimitOf(limitArg))

getTransactionHistory(chain, address, limitArg) ==
  /\ probe' = [op |-> "getTransactionHistory", chain |-> chain, address |-> address,
               limit |-> limitArg, result |-> historyOf(chain, address, limitArg)]
  /\ UNCHANGED <<wallets, activities, options, pollTimer, timers, cycles, lastOp,
                 calls, outcome, requests, removed, history>>

\* fetchTransactions(wallet) called on its own, with the replies it gets
fetchTransactionsCall(wallet, replies) ==
  /\ probe' = [op |-> "fetchTransactions", wallet |-> wallet,
               nativeTxs |-> fetchEvmTransactions(wallet, replies.txlist),
               tokenTxs |-> fetchEvmTokenTransfers(wallet, replies.tokentx),
               result |-> fetchTransactions(wallet, replies)]
  /\ UNCHANGED <<wallets, activities, options, pollTimer, timers, cycles, lastOp,
                 calls, outcome, requests, removed, history>>

\* ---------------------------------------------------------------- timer
\* the handle setInterval returns: one that no armed timer has, of n
FreshTimer(t, n) ==
  /\ t \in (1..n) \ timers
  /\ \A u \in (1..n) \ timers : t <= u

start(c, t, n) ==
  /\ FreeCycle(c)
  /\ FreshTimer(t, n)
  /\ BeginUpdate(c)
  /\ pollTimer' = t
  /\ timers' = timers \cup {t}
  /\ lastOp' = [op |-> "start", cycle |-> c, wallet |-> NoWallet]
  /\ UNCHANGED <<wallets, activities, options, removed, history, probe>>

\* an armed interval timer fires: () => this.update()
tick(t, c) ==
  /\ t \in timers
  /\ FreeCycle(c)
  /\ BeginUpdate(c)
  /\ lastOp' = [op |-> "tick", cycle |-> c, wallet |-> NoWallet]
  /\ UNCHANGED <<wallets, activities, options, pollTimer, timers, removed, history, probe>>

\* stop() that also abandons the update cycles in flight
stopCancels ==
  /\ IF pollTimer # 0
     THEN /\ timers' = timers \ {pollTimer}
          /\ pollTimer' = 0
     ELSE UNCHANGED <<timers, pollTimer>>
  /\ cycles' = [c \in CycleIds |-> IdleCycle]
  /\ lastOp' = [op |-> "stop", cycle |-> 0, wallet |-> NoWallet]
  /\ calls' = <<>>
  /\ outcome' = "none"
  /\ requests' = 0
  /\ UNCHANGED <<wallets, activities, options, removed, history, probe>>

stop ==
  /\ IF pollTimer # 0
     THEN /\ timers' = timers \ {pollTimer}
          /\ pollTimer' = 0
     ELSE UNCHANGED <<timers, pollTimer>>
  /\ lastOp' = [op |-> "stop", cycle |-> 0, wallet |-> NoWallet]
  /\ calls' = <<>>
  /\ outcome' = "none"
  /\ requests' = 0
  /\ UNCHANGED <<wallets, activities, options, cycles, removed, history, probe>>

\* ------------------------------------------------------- specifications
\* A scope names the inputs a specification draws from: the configs handed
\* to addWallet, the upstream results, and the size of the registry and of
\* the timer table.
AllOptions == [onTransaction : BOOLEAN, onBalanceChange : BOOLEAN, onError : BOOLEAN]

FailedReply == [kind |-> "failed", status |-> "0", result |-> <<>>]

\* the upstream replies a transaction fetch of the wallet can get; a chain
\* without explorer issues no request and gets none
TxReplies(sc, wallet) ==
  IF wallet.chain = "solana" THEN [solscan : SolscanReplies(sc.solscan)]
  ELSE IF wallet.chain \in EXPLORER_APIS
       THEN [txlist : ExplorerReplies(sc.txlist), tokentx : ExplorerReplies(sc.tokentx)]
       ELSE {[txlist |-> FailedReply, tokentx |-> FailedReply]}

\* the upstream replies a balance fetch of the wallet can get
BalanceReplies(sc, wallet) ==
  IF wallet.chain = "solana" THEN [solana : SolanaBalanceReplies(sc.lamports, sc.rawTokens)]
  ELSE IF wallet.chain \in EXPLORER_APIS
       THEN [evm : EvmBalanceReplies(sc.natives, sc.rawTokens)]
       ELSE {[evm |-> [kind |-> "failed", status |-> "0", result |-> "0",
                       tokenStatus |-> "0", tokens |-> <<>>]]}

\* addWallet and removeWallet, called between the steps of the cycles
RegistryNext(sc) ==
  \/ \E config \in sc.configs :
       /\ Len(MapSet(config)) <= sc.maxWallets
       /\ addWallet(config)
  \/ \E config \in sc.configs : removeWallet(config.chain, config.address)

\* update() called by the user, and the steps of the cycles in flight
CycleNext(sc) ==
  \/ \E c \in CycleIds : update(c)
  \/ \E c \in CycleIds : \E replies \in TxReplies(sc, cycles[c].wallet) :
       TransactionsFetched(c, replies)
  \/ \E c \in CycleIds : \E replies \in BalanceReplies(sc, cycles[c].wallet) :
       \E throwAt \in 0..(Len(cycles[c].transactions) + 1), errorThrows \in BOOLEAN :
         BalanceFetched(c, replies, throwAt, errorThrows)

\* start(), stop() and the ticks of the armed timers
TimerNext(sc) ==
  \/ \E c \in CycleIds, t \in 1..sc.timers : start(c, t, sc.timers)
  \/ \E c \in CycleIds, t \in 1..sc.timers : tick(t, c)
  \/ stop

\* Spec: the registry, one update cycle at a time and one timer.  Two
\* chains (one with an explorer, one without), two labels, one hash.
RegistryScope ==
  [configs |-> [chain : {"ethereum", "dogecoin"}, address : {"0xa"}, label : {"hot", "cold"}],
   maxWallets |-> 2,
   txlist |-> SeqsUpTo(RawTx({"0x1"}, {1}), MaxPage),
   tokentx |-> {<<>>},
   solscan |-> {<<>>},
   natives |-> {"0", "1000"},
   lamports |-> {0},
   rawTokens |-> {<<>>},
   timers |-> 1]

Init == InitTracker(AllOptions, MaxCycles, FALSE)

Next ==
  \/ RegistryNext(RegistryScope)
  \/ CycleNext(RegistryScope)
  \/ TimerNext(RegistryScope)

Spec == Init /\ [][Next]_vars

\* SpecDiff: the diff of one wallet's snapshots.  One solana wallet (its
\* list is stored as fetched); three hashes, two timestamps, native and
\* token balances.
DiffScope ==
  [configs |-> [chain : {"solana"}, address : {"0xa"}, label : {"hot"}],
   maxWallets |-> 1,
   txlist |-> {<<>>},
   tokentx |-> {<<>>},
   solscan |-> SeqsUpTo(RawTx({"0xA", "0xB", "0xC"}, {1, 2}), MaxSolanaPage),
   natives |-> {"0"},
   lamports |-> {0, 1000},
   rawTokens |-> {<<>>, <<"0">>, <<"5">>},
   timers |-> 0]

NextDiff ==
  \/ RegistryNext(DiffScope)
  \/ CycleNext(DiffScope)

SpecDiff == Init /\ [][NextDiff]_vars

\* SpecPoller: start(), stop(), the timer ticks and overlapping update
\* cycles over one wallet of an explorer chain.
PollerScope ==
  [configs |-> [chain : {"ethereum"}, address : {"0xa"}, label : {"hot"}],
   maxWallets |-> 1,
   txlist |-> SeqsUpTo(RawTx({"0x1"}, {1}), MaxPage),
   tokentx |-> {<<>>},
   solscan |-> {<<>>},
   natives |-> {"0", "1000"},
   lamports |-> {0},
   rawTokens |-> {<<>>},
   timers |-> MaxTimers]

InitPoller == InitTracker(AllOptions, MaxOverlap, FALSE)

NextPoller ==
  \/ RegistryNext(PollerScope)
  \/ CycleNext(PollerScope)
  \/ TimerNext(PollerScope)

SpecPoller == InitPoller /\ [][NextPoller]_vars

\* SpecMerge: fetchTransactions on its own, for a wallet of an explorer
\* chain and one of a chain without explorer, over all pairs of pages.
MergeScope ==
  [configs |-> [chain : {"ethereum", "dogecoin"}, address : {"0xa"}, label : {"hot"}],
   maxWallets |-> 1,
   txlist |-> SeqsUpTo(RawTx({"0xA", "0xB", "0xC"}, {1, 2}), MaxMergePage),
   tokentx |-> SeqsUpTo(RawTx({"0xA", "0xB", "0xC"}, {1, 2}), MaxMergePage),
   solscan |-> {<<>>},
   natives |-> {"0"},
   lamports |-> {0},
   rawTokens |-> {<<>>},
   timers |-> 0]

NoCallbacks == [onTransaction |-> FALSE, onBalanceChange |-> FALSE, onError |-> FALSE]

InitMerge == InitTracker({NoCallbacks}, MaxCycles, FALSE)

\* one call on the new tracker
NextMerge ==
  /\ probe = NoProbe
  /\ \E wallet \in MergeScope.configs : \E replies \in TxReplies(MergeScope, wallet) :
       fetchTransactionsCall(wallet, replies)

SpecMerge == InitMerge /\ [][NextMerge]_vars

\* SpecHistory: getTransactionHistory on its own, on a tracker whose one
\* wallet has no snapshot or a snapshot of up to MaxStored transactions.
HistoryWallet == [chain |-> "ethereum", address |-> "0xa", label |-> "hot"]

\* n transactions as an update stores them: distinct hashes, newest first
StoredTransactions(n) ==
  [i \in 1..n |-> [hash |-> "0x" \o ToString(i), timestamp |-> (n + 1 - i) * 1000,
                   token |-> FALSE]]

InitHistory ==
  /\ wallets = <<HistoryWallet>>
  /\ \/ activities = <<>>
     \/ \E n \in 0..MaxStored :
          activities = (WalletKey(HistoryWallet) :>
                          [wallet |-> HistoryWallet,
                           transactions |-> StoredTransactions(n),
                           balance |-> ZeroBalance])
  /\ options = NoCallbacks
  /\ pollTimer = 0
  /\ timers = {}
  /\ cycles = [c \in 1..MaxCycles |-> IdleCycle]
  /\ lastOp = [op |-> "new", cycle |-> 0, wallet |-> NoWallet]
  /\ calls = <<>>
  /\ outcome = "none"
  /\ requests = 0
  /\ removed = {}
  /\ history = NoHistory
  /\ probe = NoProbe

\* one call, for the wallet's key or for a key without snapshot
NextHistory ==
  /\ probe = NoProbe
  /\ \E chain \in {"ethereum", "solana"}, limitArg \in {<<>>} \cup {<<n>> : n \in 0..MaxLimit} :
       getTransactionHistory(chain, "0xa", limitArg)

SpecHistory == InitHistory /\ [][NextHistory]_vars

\* SpecFetch: one wallet of an explorer chain, added, removed and added
\* again, one update cycle at a time, with the history kept: pages of up to
\* MaxFetchPage entries, failed adapter calls, callbacks that throw.
FetchScope ==
  [configs |-> [chain : {"ethereum"}, address : {"0xa"}, label : {"hot"}],
   maxWallets |-> 1,
   txlist |-> SeqsUpTo(RawTx({"0x1", "0x2"}, {1}), MaxFetchPage),
   tokentx |-> {<<>>},
   solscan |-> {<<>>},
   natives |-> {"0", "1000"},
   lamports |-> {0},
   rawTokens |-> {<<>>},
   timers |-> 0]

InitFetch == InitTracker(AllOptions, MaxCycles, TRUE)

NextFetch ==
  \/ RegistryNext(FetchScope)
  \/ CycleNext(FetchScope)

SpecFetch == InitFetch /\ [][NextFetch]_vars

\* SpecLifetime: one wallet of an explorer chain that is added once and
\* stays registered, overlapping update cycles, the history kept.  The
\* upstream history is one transaction from the start and never shrinks:
\* txlist returns it or fails, the wallet has no token transfers, and the
\* callbacks return.
LifetimeWallet == [chain |-> "ethereum", address |-> "0xa", label |-> "hot"]

LifetimeReplies ==
  [txlist : {FailedReply,
             [kind |-> "json", status |-> "1",
              result |-> <<[hash |-> "0x1", time |-> 1]>>]},
   tokentx : {[kind |-> "json", status |-> "0", result |-> <<>>]}]

InitLifetime == InitTracker({o \in AllOptions : o.onTransaction}, MaxOverlap, TRUE)

NextLifetime ==
  \/ wallets = <<>> /\ addWallet(LifetimeWallet)
  \/ \E c \in CycleIds : update(c)
  \/ \E c \in CycleIds : \E replies \in LifetimeReplies : TransactionsFetched(c, replies)
  \/ \E c \in CycleIds : \E replies \in BalanceReplies(PollerScope, cycles[c].wallet) :
       BalanceFetched(c, replies, 0, FALSE)

SpecLifetime == InitLifetime /\ [][NextLifetime]_vars

\* ---------------------------------------------------- claims under Spec
\* the configs getWallets() returns for (chain, address)
Registered(chain, address) ==
  {i \in 1..Len(getWallets) :
     getWallets[i].chain = chain /\ getWallets[i].address = address}

\* C1: once removeWallet(chain, address) has returned and no addWallet for
\* the key followed, getActivity returns undefined and getWallets() holds no
\* config for the key, in every later state.
C1_RemovedStaysRemoved ==
  \A r \in removed :
    /\ getActivity(r.chain, r.address) = <<>>
    /\ Registered(r.chain, r.address) = {}

\* C4: when processing a wallet throws, the error is reported through
\* onError if configured, the same cycle goes on with the next registered
\* wallet, and no exception leaves update().
C4_ErrorsStayInsideTheCycle ==
  [][\A c \in CycleIds :
       (lastOp'.op = "process" /\ lastOp'.cycle = c /\ outcome' # "done")
       => /\ outcome' = "caught"
          /\ options.onError =>
               (calls' # <<>> /\ calls'[Len(calls')].cb = "onError"
                /\ calls'[Len(calls')].wallet = cycles[c].wallet)
          /\ cycles[c].pos < Len(wallets) =>
               (cycles'[c].pc = "fetchTransactions"
                /\ cycles'[c].wallet = wallets[cycles[c].pos + 1])]_vars

\* a chain that is neither solana nor a key of EXPLORER_APIS
Unsupported(wallet) ==
  wallet # NoWallet /\ wallet.chain # "solana" /\ wallet.chain \notin EXPLORER_APIS

C9_AddWalletReplacesConfigOnly ==
  [][lastOp'.op = "addWallet"
     => /\ activities' = activities
        /\ \A i, j \in 1..Len(wallets') :
             WalletKey(wallets'[i]) = WalletKey(wallets'[j]) => i = j
        /\ \E i \in 1..Len(wallets') : wallets'[i] = lastOp'.wallet
        /\ Registered(lastOp'.wallet.chain, lastOp'.wallet.address) # {}
           => Len(wallets') = Len(wallets)]_vars

\* addWallet has replaced the config of a key whose stored snapshot still
\* carries the old config
C9_Witness ==
  /\ lastOp.op = "addWallet"
  /\ getActivity(lastOp.wallet.chain, lastOp.wallet.address) # <<>>
  /\ getActivity(lastOp.wallet.chain, lastOp.wallet.address)[1].wallet # lastOp.wallet
  /\ Len(wallets) = 1

OnTransactionArgs(cs) ==
  LET made == SelectSeq(cs, LAMBDA call : call.cb = "onTransaction")
  IN [i \in 1..Len(made) |-> made[i].tx[1]]

\* the onBalanceChange invocations among cs
OnBalanceChangeCalls(cs) == SelectSeq(cs, LAMBDA call : call.cb = "onBalanceChange")

\* C2: when update() processes a wallet that has a stored snapshot and
\* onTransaction is configured, onTransaction is invoked once for each
\* transaction of the fetched list whose hash is not in the previous
\* snapshot, in the order of the list, and for no other transaction.
C2_OnTransactionForEveryNewHash ==
  [][\A c \in CycleIds :
       (/\ lastOp'.op = "process"
        /\ lastOp'.cycle = c
        /\ options.onTransaction
        /\ WalletKey(cycles[c].wallet) \in DOMAIN activities)
       => OnTransactionArgs(calls')
            = NewTxs(activities[WalletKey(cycles[c].wallet)], cycles[c].transactions)]_vars

\* C3: when update() processes a wallet that has a stored snapshot and
\* onBalanceChange is configured, onBalanceChange is invoked once in that
\* cycle if the native balance string differs from the previous snapshot's,
\* and not at all if it is equal.
C3_OnBalanceChangeIffNativeDiffers ==
  [][\A c \in CycleIds :
       (/\ lastOp'.op = "process"
        /\ lastOp'.cycle = c
        /\ options.onBalanceChange
        /\ WalletKey(cycles[c].wallet) \in DOMAIN activities)
       => Len(OnBalanceChangeCalls(calls'))
            = IF activities[WalletKey(cycles[c].wallet)].balance.native
                   # activities'[WalletKey(cycles[c].wallet)].balance.native
              THEN 1 ELSE 0]_vars

\* ---------------------------------------------- claims under SpecPoller
\* C5: after stop() has returned no interval timer of the tracker is armed
\* (so no timer starts a further update cycle), whatever start() and stop()
\* calls came before.
C5_StopDisarmsEveryTimer ==
  lastOp.op = "stop" => (timers = {} /\ pollTimer = 0)

\* ----------------------------------------------- claims under SpecMerge
\* C7: for a wallet of the EVM path, the list fetchTransactions returns
\* holds exactly one entry for every hash of the native-transaction list
\* and of the token-transfer list, and no other hash.
C7_MergedListHasEachHashOnce ==
  probe.op = "fetchTransactions"
  => /\ HashesOf(probe.result) = HashesOf(probe.nativeTxs) \cup HashesOf(probe.tokenTxs)
     /\ \A i, j \in 1..Len(probe.result) :
          probe.result[i].hash = probe.result[j].hash => i = j

\* the two lists share a hash, each holds another one too, and the merged
\* list has been returned
C7_Witness ==
  /\ probe.op = "fetchTransactions"
  /\ HashesOf(probe.nativeTxs) \cap HashesOf(probe.tokenTxs) # {}
  /\ Len(probe.nativeTxs) = MaxMergePage
  /\ Len(probe.tokenTxs) = MaxMergePage
  /\ Len(probe.result) = 3

\* --------------------------------------------- claims under SpecHistory
\* the smaller of two numbers
Min(a, b) == IF a < b THEN a ELSE b

\* C8: getTransactionHistory(chain, address, limit) returns the first
\* min(limit, n) transactions of the stored snapshot in stored order, with
\* limit = 20 when it is omitted, the empty list when no snapshot is stored
\* for the key, and leaves the stored snapshot as it is.  (limit ranges over
\* the natural numbers.)
C8_HistoryIsAPrefixOfTheSnapshot ==
  [][probe'.op = "getTransactionHistory"
     => /\ activities' = activities
        /\ LET stored == getActivity(probe'.chain, probe'.address)
               limit == IF probe'.limit = <<>> THEN 20 ELSE probe'.limit[1]
           IN IF stored = <<>> THEN probe'.result = <<>>
              ELSE /\ Len(probe'.result) = Min(limit, Len(stored[1].transactions))
                   /\ \A i \in 1..Len(probe'.result) :
                        probe'.result[i] = stored[1].transactions[i]]_vars

\* the limit was omitted on a snapshot of more than 20 transactions, and
\* 20 of them were returned
C8_Witness ==
  /\ probe.op = "getTransactionHistory"
  /\ probe.limit = <<>>
  /\ getActivity(probe.chain, probe.address) # <<>>
  /\ Len(getActivity(probe.chain, probe.address)[1].transactions) > 20
  /\ Len(probe.result) = 20

\* ------------------------------------------- further claims under Spec
\* C11: within one update() invocation the wallets are processed one at a
\* time: the balance fetch of a wallet begins when its transaction fetch
\* has completed, and the fetch for the next wallet begins in the step
\* that has written the current wallet's snapshot and dispatched its
\* callbacks; the fetch calls a cycle has in flight are those of one fetch
\* of one wallet.
C11_OneWalletAtATime ==
  [][\A c \in CycleIds :
       lastOp'.cycle = c
       => /\ cycles'[c].pc = "fetchBalance"
             => /\ lastOp'.op = "fetchTransactions"
                /\ cycles[c].pc = "fetchTransactions"
                /\ cycles'[c].wallet = cycles[c].wallet
                /\ requests' = BalanceRequests(cycles[c].wallet)
          /\ cycles'[c].pc = "fetchTransactions"
             => /\ requests' = TransactionRequests(cycles'[c].wallet)
                /\ cycles[c].pc \in {"idle", "fetchBalance"}
                /\ cycles[c].pc = "fetchBalance"
                   => /\ lastOp'.op = "process"
                      /\ outcome' \in {"done", "caught"}
                      /\ WalletKey(cycles[c].wallet) \in DOMAIN activities'
                      /\ activities'[WalletKey(cycles[c].wallet)].transactions
                           = cycles[c].transactions]_vars

\* a cycle has written the snapshot of one wallet, dispatched a callback
\* for it, and begun the transaction fetch of the next wallet
C11_Witness ==
  /\ lastOp.op = "process"
  /\ calls # <<>>
  /\ cycles[lastOp.cycle].pc = "fetchTransactions"
  /\ WalletKey(cycles[lastOp.cycle].wallet) # WalletKey(lastOp.wallet)
  /\ getActivity(lastOp.wallet.chain, lastOp.wallet.address) # <<>>

\* -------------------------------------- further claims under SpecMerge
\* C12: for a wallet of the EVM path, when a hash is in the native list and
\* in the token-transfer list, the entry fetchTransactions keeps for it is
\* the native one (without token metadata), whatever the timestamps are.
C12_SharedHashKeepsTheNativeEntry ==
  probe.op = "fetchTransactions"
  => \A i \in 1..Len(probe.result) :
       probe.result[i].hash \in HashesOf(probe.nativeTxs) \cap HashesOf(probe.tokenTxs)
       => ~probe.result[i].token

\* --------------------------------------- further claims under SpecDiff
\* the list is ordered by non-increasing timestamp
NewestFirst(txs) ==
  \A i, j \in 1..Len(txs) : i < j => txs[i].timestamp >= txs[j].timestamp

\* C13: the transactions of every stored WalletActivity are ordered by
\* non-increasing timestamp, for the wallets of every chain, whatever the
\* order of the upstream response.
C13_StoredTransactionsNewestFirst ==
  \A key \in DOMAIN activities : NewestFirst(activities[key].transactions)

\* ---------------------------------------------------- claims under SpecFetch
\* the adapter calls a transaction fetch of the wallet makes
TransactionAdapters(wallet) ==
  IF wallet.chain = "solana" THEN {"solscan"}
  ELSE IF wallet.chain \in EXPLORER_APIS THEN {"txlist", "tokentx"} ELSE {}

C15_FirstSnapshotIsSilent ==
  [][\A c \in CycleIds :
       (/\ lastOp'.op = "process"
        /\ lastOp'.cycle = c
        /\ WalletKey(cycles[c].wallet) \notin DOMAIN activities)
       => /\ calls' = <<>>
          /\ outcome' = "done"
          /\ WalletKey(cycles[c].wallet) \in DOMAIN activities'
          /\ activities'[WalletKey(cycles[c].wallet)].wallet = cycles[c].wallet
          /\ activities'[WalletKey(cycles[c].wallet)].transactions
               = cycles[c].transactions]_vars

\* with both callbacks configured, a cycle has stored the first snapshot
\* of a wallet, two transactions and a native balance other than '0', and
\* has made no callback invocation
C15_Witness ==
  /\ lastOp.op = "process"
  /\ history.first
  /\ options.onTransaction
  /\ options.onBalanceChange
  /\ calls = <<>>
  /\ getActivity(lastOp.wallet.chain, lastOp.wallet.address) # <<>>
  /\ Len(getActivity(lastOp.wallet.chain, lastOp.wallet.address)[1].transactions) = 2
  /\ getActivity(lastOp.wallet.chain, lastOp.wallet.address)[1].balance.native = "1000"

\* C19: whenever update() replaces a wallet's stored snapshot, every hash
\* of the new snapshot that is not in the replaced one is handed to
\* onTransaction (if configured), and a changed native balance to
\* onBalanceChange (if configured), also when a callback throws during the
\* dispatch.  (The written snapshot holds the hash and the balance from
\* then on, so no later cycle reports them: they are handed over in the
\* step of the write or never.)
C19_NoChangeAbsorbedUnreported ==
  [][\A c \in CycleIds :
       (/\ lastOp'.op = "process"
        /\ lastOp'.cycle = c
        /\ WalletKey(cycles[c].wallet) \in DOMAIN activities)
       => LET key == WalletKey(cycles[c].wallet)
          IN /\ options.onTransaction
                => HashesOf(activities'[key].transactions)
                     \ HashesOf(activities[key].transactions)
                   \subseteq {d.hash : d \in Deliveries(cycles[c].wallet, calls')}
             /\ (/\ options.onBalanceChange
                 /\ activities'[key].balance.native # activities[key].balance.native)
                => \E i \in 1..Len(calls') :
                     /\ calls'[i].cb = "onBalanceChange"
                     /\ calls'[i].balance = activities'[key].balance]_vars

\* ------------------------------------- further claims under SpecPoller
\* C16: stop() does not cancel an update cycle in flight.  stop() clears
\* the timer it holds and leaves every cycle where it is suspended; a
\* cycle that resumes while no timer is armed still writes the snapshot of
\* its wallet and dispatches the callbacks of its diff.
C16_StopLeavesCyclesInFlight ==
  [][/\ lastOp'.op = "stop"
        => /\ cycles' = cycles
           /\ activities' = activities
           /\ pollTimer' = 0
           /\ timers' = timers \ {pollTimer}
     /\ \A c \in CycleIds :
          (lastOp'.op = "process" /\ lastOp'.cycle = c /\ timers = {} /\ pollTimer = 0)
          => LET key == WalletKey(cycles[c].wallet)
             IN /\ key \in DOMAIN activities'
                /\ activities'[key].transactions = cycles[c].transactions
                /\ (/\ key \in DOMAIN activities
                    /\ options.onTransaction
                    /\ HashesOf(cycles[c].transactions)
                         \ HashesOf(activities[key].transactions) # {})
                   => (calls' # <<>> /\ calls'[1].cb = "onTransaction")
                /\ (/\ key \in DOMAIN activities
                    /\ options.onBalanceChange
                    /\ ~options.onTransaction
                    /\ activities[key].balance.native # activities'[key].balance.native)
                   => (calls' # <<>> /\ calls'[1].cb = "onBalanceChange")]_vars

\* C18: after removeWallet(chain, address) has returned and until
\* addWallet is called for the key again, no update cycle invokes
\* onTransaction or onBalanceChange for that wallet, however removeWallet
\* interleaves with the cycles in flight.
C18_NoCallbackForRemovedWallet ==
  (/\ lastOp.op = "process"
   /\ [chain |-> lastOp.wallet.chain, address |-> lastOp.wallet.address] \in removed)
  => \A i \in 1..Len(calls) : calls[i].cb \notin {"onTransaction", "onBalanceChange"}

\* stop() has returned, no timer is armed, and a cycle is still suspended
\* in the balance fetch of a wallet that has a snapshot and a new
\* transaction to report
C16_Witness ==
  /\ lastOp.op = "stop"
  /\ timers = {}
  /\ options.onTransaction
  /\ \E c \in CycleIds :
       /\ cycles[c].pc = "fetchBalance"
       /\ WalletKey(cycles[c].wallet) \in DOMAIN activities
       /\ HashesOf(cycles[c].transactions)
            \ HashesOf(activities[WalletKey(cycles[c].wallet)].transactions) # {}

\* ------------------------------------------- claims under SpecLifetime
\* C17: for a wallet that stays registered and whose upstream history only
\* grows, onTransaction is invoked at most once per transaction hash: no
\* update cycle hands over a hash that an earlier step has handed over.
C17_OnTransactionOncePerHash ==
  [][\A c \in CycleIds :
       (lastOp'.op = "process" /\ lastOp'.cycle = c)
       => Deliveries(cycles[c].wallet, calls') \cap history.delivered = {}]_vars

\* the list p is the beginning of the list s
IsPrefix(p, s) == Len(p) <= Len(s) /\ p = SubSeq(s, 1, Len(p))

\* C20: reading a wallet's previous snapshot and writing its new one are
\* one step of update().  When cycles overlap, the step in which a cycle
\* writes a wallet's snapshot dispatches the diff against the snapshot
\* stored right before that step (all of it unless a callback throws),
\* replaces that snapshot only, and leaves the other cycles where they are.
C20_ReadAndWriteAreOneStep ==
  [][\A c \in CycleIds :
       (lastOp'.op = "process" /\ lastOp'.cycle = c)
       => LET key == WalletKey(cycles[c].wallet)
              fetched == cycles[c].transactions
              replaced == IF key \in DOMAIN activities
                          THEN HashesOf(activities[key].transactions)
                          ELSE HashesOf(fetched)
              diff == IF options.onTransaction
                      THEN SelectSeq(fetched, LAMBDA tx : tx.hash \notin replaced)
                      ELSE <<>>
          IN /\ IsPrefix(OnTransactionArgs(calls'), diff)
             /\ outcome' = "done" => OnTransactionArgs(calls') = diff
             /\ DOMAIN activities' = DOMAIN activities \cup {key}
             /\ activities'[key].transactions = fetched
             /\ \A k \in DOMAIN activities : k # key => activities'[k] = activities[k]
             /\ \A other \in CycleIds \ {c} : cycles'[other] = cycles[other]]_vars

\* a cycle has written a wallet's snapshot and reported a new transaction
\* while another cycle is suspended in a fetch for the same wallet
C20_Witness ==
  /\ lastOp.op = "process"
  /\ OnTransactionArgs(calls) # <<>>
  /\ \E other \in CycleIds \ {lastOp.cycle} :
       /\ cycles[other].pc # "idle"
       /\ cycles[other].wallet = lastOp.wallet

====
